---------------------------- MODULE Spec2Model ----------------------------
(***************************************************************************)
(* storage_hal: a moka in-memory cache in front of a sled persistent       *)
(* store (src/src/lib.rs).                                                 *)
(*                                                                         *)
(* Strings are sequences of one-character strings, so that strip_prefix    *)
(* and split_once are computed as the code computes them.  Byte strings    *)
(* are sequences of numbers 0..255.  A Rust Option is a sequence of        *)
(* length at most one: None is << >> and Some(x) is <<x>>.                 *)
(***************************************************************************)
EXTENDS Integers, Sequences, FiniteSets, TLC

VARIABLES
    config,     \* StorageConfig: [ttl : BOOLEAN, cap : Option(Nat)]
    db,         \* sled Db: <<tree name, raw key>> -> bytes
    cache,      \* moka cache: composite key -> [bytes, expired]
    panicked,   \* a thread has panicked (an unwrap() on an Err or on a None)
    ret,        \* the last call of the single caller and what it returned:
                \* val, an Option, or for contains_key found, a boolean
    last,       \* history: record -> the value of the last successful insert
                \* that no remove or expiry of the record has followed
    issued,     \* history: sequence name -> the values next() has returned
    pc,         \* concurrent callers of next(): position of each caller
    seen,       \* concurrent callers of next(): the Option read by tree.get
    got         \* concurrent callers of next(): the values returned so far

vars == <<config, db, cache, panicked, ret, last, issued, pc, seen, got>>

-----------------------------------------------------------------------------
(* Bounds of the model *)

\* record values are the numbers 0..MaxVal
MaxVal == 1
\* a caller issues at most MaxNext values from one sequence
MaxNext == 3
\* number of concurrent callers of next()
NumCallers == 2
\* the configured cache_max_capacity, when one is configured
SmallCapacity == 10
\* raw keys of the composite-key encoding have at most MaxKeyLen characters
MaxKeyLen == 2

-----------------------------------------------------------------------------
(* Option *)

None == << >>

Some(x) == <<x>>

-----------------------------------------------------------------------------
(* Names, keys and values *)

\* const SEQUENCE_TREE_NAME: &str = "SEQUENCE"
SEQUENCE_TREE_NAME == <<"S", "E", "Q", "U", "E", "N", "C", "E">>

\* sled's default tree, which Db derefs to
DefaultTree == <<"__sled__default">>

\* StorageData::name() of the record types: stringify!(#name)
Names == {<<"T">>}

\* raw keys
Keys == {<<"a">>, <<"b">>}

\* raw keys of the root partition
RootKeys == {<<"a">>}

\* names of sequences
SeqNames == {<<"s">>}

\* a value whose Serialize implementation reports an error
Unserializable == 0 - 1

Values == 0 .. MaxVal

-----------------------------------------------------------------------------
(* Codecs *)

\* bincode::serialize(&value): Result as Option; a u32 field is four
\* little-endian bytes (bincode's fixed-width integer encoding)
serialize(v) ==
    IF v = Unserializable
    THEN None
    ELSE Some(<<v % 256, (v \div 256) % 256, (v \div 65536) % 256,
                (v \div 16777216) % 256>>)

\* bincode::deserialize(&v).ok(): fewer than four bytes is an error
deserialize(b) ==
    IF Len(b) < 4
    THEN None
    ELSE Some(b[1] + 256 * b[2] + 65536 * b[3] + 16777216 * b[4])

\* A u32 of the sequence generator is kept as its two 16-bit halves
\* [hi, lo], TLC's integers being narrower than a u32.
U(n) == [hi |-> n \div 65536, lo |-> n % 65536]

\* u32::to_be_bytes
to_be_bytes(u) == <<u.hi \div 256, u.hi % 256, u.lo \div 256, u.lo % 256>>

\* v.to_vec().try_into() followed by u32::from_be_bytes: exactly four bytes
from_be_bytes(b) ==
    IF Len(b) = 4
    THEN Some([hi |-> 256 * b[1] + b[2], lo |-> 256 * b[3] + b[4]])
    ELSE None

\* u32::MAX
U32Max == [hi |-> 65535, lo |-> 65535]

\* next + 1 in a build that does not check overflow: it wraps
wrapping_inc(u) ==
    IF u.lo = 65535
    THEN [hi |-> (u.hi + 1) % 65536, lo |-> 0]
    ELSE [hi |-> u.hi, lo |-> u.lo + 1]

-----------------------------------------------------------------------------
(* Composite keys *)

\* format!(":/{}/{}", T::name(), key)
ckey(name, key) == <<":", "/">> \o name \o <<"/">> \o key

\* str::strip_prefix(":/")
strip_prefix(s) ==
    IF Len(s) >= 2 /\ s[1] = ":" /\ s[2] = "/"
    THEN Some(SubSeq(s, 3, Len(s)))
    ELSE None

\* str::rsplit_once('/'): split at the last '/'
rsplit_once(s) ==
    LET hits == {i \in 1 .. Len(s) : s[i] = "/"}
    IN  IF hits = {}
        THEN None
        ELSE LET i == CHOOSE j \in hits : \A h \in hits : j >= h
             IN  Some(<<SubSeq(s, 1, i - 1), SubSeq(s, i + 1, Len(s))>>)

\* str::split_once('/'): split at the first '/'
split_once(s) ==
    LET hits == {i \in 1 .. Len(s) : s[i] = "/"}
    IN  IF hits = {}
        THEN None
        ELSE LET i == CHOOSE j \in hits : \A h \in hits : j <= h
             IN  Some(<<SubSeq(s, 1, i - 1), SubSeq(s, i + 1, Len(s))>>)

-----------------------------------------------------------------------------
(* The persistent store (sled) *)

\* Tree::get
tree_get(d, tree, key) ==
    IF <<tree, key>> \in DOMAIN d THEN Some(d[<<tree, key>>]) ELSE None

\* Tree::insert
tree_insert(d, tree, key, bytes) ==
    [x \in DOMAIN d \cup {<<tree, key>>} |->
        IF x = <<tree, key>> THEN bytes ELSE d[x]]

\* Tree::remove: removing an absent key changes nothing
tree_remove(d, tree, key) ==
    [x \in DOMAIN d \ {<<tree, key>>} |-> d[x]]

\* the raw keys of a tree, as Tree::iter visits them
tree_keys(d, tree) == {x[2] : x \in {y \in DOMAIN d : y[1] = tree}}

-----------------------------------------------------------------------------
(* The eviction listener, Storage::new *)

\* RemovalCause, as moka passes it to the listener
Causes == {"Explicit", "Expired", "Replaced", "Size"}

\* a listener that deletes the record whatever the cause
eviction_listener_every_cause(st, key, cause) ==
    LET real_key == strip_prefix(key)
    IN  IF real_key # None /\ split_once(real_key[1]) # None
        THEN [st EXCEPT !.db = tree_remove(st.db, split_once(real_key[1])[1][1],
                                           split_once(real_key[1])[1][2])]
        ELSE [st EXCEPT !.db = tree_remove(st.db, DefaultTree, key)]

\* a listener that takes every key for a key of the root partition
eviction_listener_root_only(st, key, cause) ==
    IF cause \in {"Explicit", "Expired"}
    THEN [st EXCEPT !.db = tree_remove(st.db, DefaultTree, key)]
    ELSE st

\* a listener that deletes the raw key from every partition
eviction_listener_every_tree(st, key, cause) ==
    IF cause \in {"Explicit", "Expired"}
    THEN LET real_key == strip_prefix(key)
             raw == IF real_key # None /\ split_once(real_key[1]) # None
                    THEN split_once(real_key[1])[1][2]
                    ELSE key
         IN  [st EXCEPT !.db = [x \in {y \in DOMAIN st.db : y[2] # raw}
                                   |-> st.db[x]]]
    ELSE st

\* The closure given to eviction_listener.  st is [db, cache, panicked];
\* the result is st with the store as the listener leaves it.  unwrap() on
\* the None of split_once panics.
eviction_listener(st, key, cause) ==
    IF cause \in {"Explicit", "Expired"}
    THEN LET real_key == strip_prefix(key)
         IN  IF real_key # None
             THEN LET parts == split_once(real_key[1])
                  IN  IF parts = None
                      THEN [st EXCEPT !.panicked = TRUE]
                      ELSE [st EXCEPT !.db =
                               tree_remove(st.db, parts[1][1], parts[1][2])]
             ELSE [st EXCEPT !.db = tree_remove(st.db, DefaultTree, key)]
    ELSE st

\* The closure when the store fails the call the closure makes of it: fault
\* "open" is an Err of open_tree and "io" an Err of remove.  Both results
\* are unwrapped, as is the Option of split_once; the closure panics.
eviction_listener_on(st, key, cause, fault) ==
    IF cause \in {"Explicit", "Expired"}
    THEN LET real_key == strip_prefix(key)
         IN  IF real_key # None
             THEN IF split_once(real_key[1]) = None \/ fault # "ok"
                  THEN [st EXCEPT !.panicked = TRUE]
                  ELSE eviction_listener(st, key, cause)
             ELSE IF fault = "io"
                  THEN [st EXCEPT !.panicked = TRUE]
                  ELSE eviction_listener(st, key, cause)
    ELSE st

-----------------------------------------------------------------------------
(* The memory cache (moka SegmentedCache), with the listener it was built  *)
(* with.  moka calls the listener before the call that removes or replaces *)
(* the entry returns.  An entry whose time to live or time to idle has     *)
(* passed stays in the table, hidden from readers, until it is replaced,   *)
(* invalidated or swept; the cause reported for it is then Expired.        *)

\* weigher: |k, v| (k.len() + v.len()) as u32
weigher(k, v) == Len(k) + Len(v)

RECURSIVE weighted_size(_, _)
weighted_size(c, ks) ==
    IF ks = {}
    THEN 0
    ELSE LET k == CHOOSE x \in ks : TRUE
         IN  weigher(k, c[k].bytes) + weighted_size(c, ks \ {k})

\* Cache::get
cache_get(c, key) ==
    IF key \in DOMAIN c /\ ~c[key].expired THEN Some(c[key].bytes) ELSE None

\* Cache::contains_key
cache_contains_key(c, key) == key \in DOMAIN c /\ ~c[key].expired

\* the table without the entry of key
cache_without(c, key) == [x \in DOMAIN c \ {key} |-> c[x]]

\* Cache::insert: an entry already there is replaced and the listener is
\* told, with cause Replaced, or Expired when the old entry had expired
cache_insert(st, key, bytes) ==
    LET c == st.cache
        told == IF key \in DOMAIN c
                THEN eviction_listener(st, key,
                         IF c[key].expired THEN "Expired" ELSE "Replaced")
                ELSE st
    IN  [told EXCEPT !.cache =
            [x \in DOMAIN c \cup {key} |->
                IF x = key THEN [bytes |-> bytes, expired |-> FALSE] ELSE c[x]]]

\* Cache::remove (invalidate): the listener is told with cause Explicit, or
\* Expired when the entry had expired
cache_remove(st, key) ==
    LET c == st.cache
    IN  IF key \in DOMAIN c
        THEN [eviction_listener(st, key,
                  IF c[key].expired THEN "Expired" ELSE "Explicit")
                EXCEPT !.cache = cache_without(c, key)]
        ELSE st

\* the cache's maintenance evicts one entry: an expired one (cause Expired)
\* or, over capacity, any one (cause Size)
cache_evict(st, key, cause) ==
    [eviction_listener(st, key, cause)
        EXCEPT !.cache = cache_without(st.cache, key)]

-----------------------------------------------------------------------------
(* Storage: structured data.  Each handler takes the state st = [db,       *)
(* cache, panicked] and gives [st |-> the state it leaves, val |-> what it *)
(* returns].  fault is what the store does to the handler's call of it:    *)
(* "ok", "open" (open_tree is an Err) or "io" (the tree operation is an    *)
(* Err).  An unwrap() of an Err panics.                                    *)

Faults == {"ok", "open", "io"}

Panic(st) == [st EXCEPT !.panicked = TRUE]

\* a contains_key that puts a record found in the store into the cache
contains_key_promoting(st, name, key, fault) ==
    IF cache_contains_key(st.cache, ckey(name, key))
    THEN [st |-> st, val |-> TRUE]
    ELSE IF fault = "open"
    THEN [st |-> Panic(st), val |-> FALSE]
    ELSE IF fault = "io" \/ tree_get(st.db, name, key) = None
    THEN [st |-> st, val |-> FALSE]
    ELSE [st |-> cache_insert(st, ckey(name, key), st.db[<<name, key>>]),
          val |-> TRUE]

\* Storage::contains_key
contains_key(st, name, key, fault) ==
    IF cache_contains_key(st.cache, ckey(name, key))
    THEN [st |-> st, val |-> TRUE]
    ELSE IF fault = "open"
    THEN [st |-> Panic(st), val |-> FALSE]
    ELSE IF fault = "io"
    THEN [st |-> st, val |-> FALSE]
    ELSE [st |-> st, val |-> tree_get(st.db, name, key) # None]

\* Storage::get
get(st, name, key, fault) ==
    LET hit == cache_get(st.cache, ckey(name, key))
        v == tree_get(st.db, name, key)
    IN  IF hit # None
        THEN [st |-> st, val |-> deserialize(hit[1])]
        ELSE IF fault = "open"
        THEN [st |-> Panic(st), val |-> None]
        ELSE IF fault = "ok" /\ v # None
        THEN [st |-> cache_insert(st, ckey(name, key), v[1]),
              val |-> deserialize(v[1])]
        ELSE [st |-> st, val |-> None]

\* an insert that writes the cache before the store
insert_cache_first(st, name, key, value, fault) ==
    LET value_bytes == serialize(value)
    IN  IF value_bytes = None
        THEN [st |-> st, val |-> None]
        ELSE IF fault # "ok"
        THEN [st |-> Panic(cache_insert(st, ckey(name, key), value_bytes[1])),
              val |-> None]
        ELSE [st |-> [cache_insert(st, ckey(name, key), value_bytes[1])
                         EXCEPT !.db =
                             tree_insert(st.db, name, key, value_bytes[1])],
              val |-> Some(value)]

\* Storage::insert
insert(st, name, key, value, fault) ==
    LET value_bytes == serialize(value)
    IN  IF value_bytes = None
        THEN [st |-> st, val |-> None]
        ELSE IF fault # "ok"
        THEN [st |-> Panic(st), val |-> None]
        ELSE [st |-> cache_insert(
                        [st EXCEPT !.db =
                            tree_insert(st.db, name, key, value_bytes[1])],
                        ckey(name, key), value_bytes[1]),
              val |-> Some(value)]

\* a remove that leaves the delete of the record to the listener
remove_cache_only(st, name, key, fault) ==
    IF fault # "ok"
    THEN [st |-> Panic(st), val |-> None]
    ELSE [st |-> cache_remove(st, ckey(name, key)), val |-> None]

\* a remove for which a key that is not in the tree is an error
remove_strict(st, name, key, fault) ==
    IF fault # "ok" \/ tree_get(st.db, name, key) = None
    THEN [st |-> Panic(st), val |-> None]
    ELSE [st |-> cache_remove([st EXCEPT !.db = tree_remove(st.db, name, key)],
                              ckey(name, key)),
          val |-> None]

\* Storage::remove
remove(st, name, key, fault) ==
    IF fault # "ok"
    THEN [st |-> Panic(st), val |-> None]
    ELSE [st |-> cache_remove([st EXCEPT !.db = tree_remove(st.db, name, key)],
                              ckey(name, key)),
          val |-> None]

-----------------------------------------------------------------------------
(* Storage: recovery and maintenance *)

\* String::from_utf8_lossy: a byte that is not UTF-8 becomes U+FFFD
from_utf8_lossy(k) ==
    [i \in 1 .. Len(k) |-> IF k[i] = "\\xFF" THEN "\\uFFFD" ELSE k[i]]

\* a recovery that puts every item under its raw key
RECURSIVE recover_each_raw(_, _, _)
recover_each_raw(st, tree, ks) ==
    IF ks = {}
    THEN st
    ELSE LET k == CHOOSE x \in ks : TRUE
         IN  recover_each_raw(
                 cache_insert(st, from_utf8_lossy(k), st.db[<<tree, k>>]),
                 tree, ks \ {k})

\* the for_each of recover and recover_root over the items ks of a tree
RECURSIVE recover_each(_, _, _)
recover_each(st, tree, ks) ==
    IF ks = {}
    THEN st
    ELSE LET k == CHOOSE x \in ks : TRUE
             key == from_utf8_lossy(k)
             to == IF tree = DefaultTree THEN key ELSE ckey(tree, key)
         IN  recover_each(cache_insert(st, to, st.db[<<tree, k>>]),
                          tree, ks \ {k})

\* Storage::recover_root; errs are the items the iterator gives as Err
recover_root(st, errs) ==
    [st |-> recover_each(st, DefaultTree, tree_keys(st.db, DefaultTree) \ errs),
     val |-> None]

\* Storage::recover
recover(st, name, fault, errs) ==
    IF fault = "open"
    THEN [st |-> st, val |-> None]
    ELSE [st |-> recover_each(st, name, tree_keys(st.db, name) \ errs),
          val |-> None]

\* the listener told of every entry of ks leaving the cache
RECURSIVE evict_each(_, _)
evict_each(st, ks) ==
    IF ks = {}
    THEN st
    ELSE LET k == CHOOSE x \in ks : TRUE
         IN  evict_each(
                 cache_evict(st, k,
                     IF st.cache[k].expired THEN "Expired" ELSE "Size"),
                 ks \ {k})

\* what a maintenance run may evict: every expired entry and, over the
\* capacity cap (an Option), enough other entries to fit, and no more
Victims(c, cap) ==
    {V \in SUBSET DOMAIN c :
        /\ \A k \in DOMAIN c : c[k].expired => k \in V
        /\ cap # None => weighted_size(c, DOMAIN c \ V) <= cap[1]
        /\ \A k \in V : ~c[k].expired =>
              /\ cap # None
              /\ weighted_size(c, (DOMAIN c \ V) \cup {k}) > cap[1]}

\* Storage::run_pending_tasks evicting the entries V; fault "io" is an Err
\* of db.flush()
run_pending_tasks(st, V, fault) ==
    IF fault = "io"
    THEN [st |-> Panic(evict_each(st, V)), val |-> None]
    ELSE [st |-> evict_each(st, V), val |-> None]

-----------------------------------------------------------------------------
(* Storage: sequences *)

\* the Option that next matches on: tree.get(name).ok() and_then the
\* decoding of exactly four bytes; rfault: tree.get is an Err
sequence_read(d, name, rfault) ==
    LET v == tree_get(d, SEQUENCE_TREE_NAME, name)
    IN  IF rfault \/ v = None THEN None ELSE from_be_bytes(v[1])

\* a next that also puts the new counter into the cache
sequence_write_cached(st, name, read, wfault, checked) ==
    LET new == IF read = None THEN U(1) ELSE wrapping_inc(read[1])
    IN  IF read = Some(U32Max) /\ checked
        THEN [st |-> Panic(st), val |-> U(0)]
        ELSE IF wfault
        THEN [st |-> st, val |-> U(0)]
        ELSE [st |-> cache_insert(
                        [st EXCEPT !.db = tree_insert(st.db, SEQUENCE_TREE_NAME,
                                                      name, to_be_bytes(new))],
                        ckey(SEQUENCE_TREE_NAME, name), to_be_bytes(new)),
              val |-> new]

\* the rest of next once it has matched on read: the insert of the new
\* value and the return.  wfault: tree.insert is an Err.  next + 1 on
\* u32::MAX panics when the build checks overflow and wraps otherwise.
sequence_write(st, name, read, wfault, checked) ==
    LET new == IF read = None THEN U(1) ELSE wrapping_inc(read[1])
    IN  IF read = Some(U32Max) /\ checked
        THEN [st |-> Panic(st), val |-> U(0)]
        ELSE IF wfault
        THEN [st |-> st, val |-> U(0)]
        ELSE [st |-> [st EXCEPT !.db = tree_insert(st.db, SEQUENCE_TREE_NAME,
                                                   name, to_be_bytes(new))],
              val |-> new]

\* Storage::next; ofault: open_tree is an Err
next(st, name, ofault, rfault, wfault, checked) ==
    IF ofault
    THEN [st |-> Panic(st), val |-> U(0)]
    ELSE sequence_write(st, name, sequence_read(st.db, name, rfault),
                        wfault, checked)

\* Storage::current
current(st, name, ofault, rfault) ==
    IF ofault
    THEN [st |-> Panic(st), val |-> U(0)]
    ELSE LET v == tree_get(st.db, SEQUENCE_TREE_NAME, name)
         IN  IF rfault \/ v = None \/ from_be_bytes(v[1]) = None
             THEN [st |-> st, val |-> U(0)]
             ELSE [st |-> st, val |-> from_be_bytes(v[1])[1]]

-----------------------------------------------------------------------------
(* The state machine of a single caller *)

EmptyMap == [x \in {} |-> x]

\* the state the handlers work on
St == [db |-> db, cache |-> cache, panicked |-> panicked]

Becomes(st) ==
    /\ db' = st.db
    /\ cache' = st.cache
    /\ panicked' = st.panicked

\* the composite keys of the records the caller works on
RecordKeys == {ckey(n, k) : n \in Names, k \in Keys}

\* what a store opened by Storage::new may already hold: records written
\* by an earlier run or directly, bypassing the cache
InitBytes == {serialize(0)[1]}

InitSlots == (Names \X Keys) \cup ({DefaultTree} \X RootKeys)

InitStores == UNION {[D -> InitBytes] : D \in SUBSET InitSlots}

\* StorageConfig: the default, an unbounded cache, and a cache with a time
\* to live and a capacity, as in the test eviction.  (What a cache bounded
\* along one axis only does, the cache bounded along both does too.)
Configs == {[ttl |-> FALSE, cap |-> None],
            [ttl |-> TRUE, cap |-> Some(SmallCapacity)]}

InitCallers ==
    /\ pc = [p \in 1 .. NumCallers |-> "idle"]
    /\ seen = [p \in 1 .. NumCallers |-> None]
    /\ got = [p \in 1 .. NumCallers |-> << >>]

InitHistory ==
    /\ ret = [op |-> "new", key |-> None, val |-> None, found |-> FALSE]
    /\ last = [ck \in RecordKeys |-> None]
    /\ issued = [n \in SeqNames |->
                    [fresh |-> tree_get(db, SEQUENCE_TREE_NAME, n) = None,
                     vals |-> << >>, wok |-> TRUE, rok |-> TRUE]]

Init ==
    /\ config \in Configs
    /\ db \in InitStores
    /\ cache = EmptyMap
    /\ panicked = FALSE
    /\ InitHistory
    /\ InitCallers

Returns(op, key, val) ==
    ret' = [op |-> op, key |-> key, val |-> val, found |-> FALSE]

Contains(name, key, fault) ==
    LET r == contains_key(St, name, key, fault)
    IN  /\ ~panicked
        /\ Becomes(r.st)
        /\ ret' = [op |-> "contains_key", key |-> ckey(name, key),
                   val |-> None, found |-> r.val]
        /\ UNCHANGED <<config, last, issued, pc, seen, got>>

Get(name, key, fault) ==
    LET r == get(St, name, key, fault)
    IN  /\ ~panicked
        /\ Becomes(r.st)
        /\ Returns("get", ckey(name, key), r.val)
        /\ UNCHANGED <<config, last, issued, pc, seen, got>>

Insert(name, key, value, fault) ==
    LET r == insert(St, name, key, value, fault)
    IN  /\ ~panicked
        /\ Becomes(r.st)
        /\ Returns("insert", ckey(name, key), r.val)
        /\ last' = IF r.val # None
                   THEN [last EXCEPT ![ckey(name, key)] = Some(value)]
                   ELSE last
        /\ UNCHANGED <<config, issued, pc, seen, got>>

Remove(name, key, fault) ==
    LET r == remove(St, name, key, fault)
    IN  /\ ~panicked
        /\ Becomes(r.st)
        /\ Returns("remove", ckey(name, key), r.val)
        /\ last' = IF r.st.panicked
                   THEN last
                   ELSE [last EXCEPT ![ckey(name, key)] = None]
        /\ UNCHANGED <<config, issued, pc, seen, got>>

Recover(name, fault, errs) ==
    LET r == recover(St, name, fault, errs)
    IN  /\ ~panicked
        /\ Becomes(r.st)
        /\ Returns("recover", name, r.val)
        /\ UNCHANGED <<config, last, issued, pc, seen, got>>

RecoverRoot(errs) ==
    LET r == recover_root(St, errs)
    IN  /\ ~panicked
        /\ Becomes(r.st)
        /\ Returns("recover_root", None, r.val)
        /\ UNCHANGED <<config, last, issued, pc, seen, got>>

RunPendingTasks(V, fault) ==
    LET r == run_pending_tasks(St, V, fault)
    IN  /\ ~panicked
        /\ V \in Victims(cache, config.cap)
        /\ Becomes(r.st)
        /\ Returns("run_pending_tasks", None, r.val)
        /\ UNCHANGED <<config, last, issued, pc, seen, got>>

\* time passes: the entry of key reaches its time to live or time to idle
Expire(key) ==
    /\ ~panicked
    /\ config.ttl
    /\ key \in DOMAIN cache
    /\ ~cache[key].expired
    /\ cache' = [cache EXCEPT ![key].expired = TRUE]
    /\ last' = [ck \in DOMAIN last |-> IF ck = key THEN None ELSE last[ck]]
    /\ UNCHANGED <<config, db, panicked, ret, issued, pc, seen, got>>

\* the cache's own maintenance, run from inside one of its calls, evicts
\* one entry: an expired one, or any one while the cache is over capacity
Evict(key) ==
    /\ ~panicked
    /\ key \in DOMAIN cache
    /\ \/ cache[key].expired
       \/ /\ config.cap # None
          /\ weighted_size(cache, DOMAIN cache) > config.cap[1]
    /\ Becomes(cache_evict(St, key,
                   IF cache[key].expired THEN "Expired" ELSE "Size"))
    /\ UNCHANGED <<config, ret, last, issued, pc, seen, got>>

Next ==
    \/ \E n \in Names, k \in Keys, f \in Faults : Contains(n, k, f)
    \/ \E n \in Names, k \in Keys, f \in Faults : Get(n, k, f)
    \/ \E n \in Names, k \in Keys, v \in Values \cup {Unserializable},
          f \in {"ok", "io"} : Insert(n, k, v, f)
    \/ \E n \in Names, k \in Keys, f \in {"ok", "io"} : Remove(n, k, f)
    \/ \E n \in Names, f \in {"ok", "open"}, errs \in SUBSET Keys :
          Recover(n, f, errs)
    \/ \E errs \in SUBSET RootKeys : RecoverRoot(errs)
    \/ \E V \in SUBSET DOMAIN cache, f \in {"ok", "io"} : RunPendingTasks(V, f)
    \/ \E key \in DOMAIN cache : Expire(key)
    \/ \E key \in DOMAIN cache : Evict(key)

Spec == Init /\ [][Next]_vars

-----------------------------------------------------------------------------
(* The sequence generator, one caller *)

\* what the SEQUENCE tree of an opened store may hold for a name: nothing,
\* a counter, bytes that are no counter, the last counter
InitSeqBytes == {to_be_bytes(U(1)), <<1>>, to_be_bytes(U32Max)}

InitSeqStores ==
    UNION {[D -> InitSeqBytes] : D \in SUBSET ({SEQUENCE_TREE_NAME} \X SeqNames)}

InitSeq ==
    /\ config = [ttl |-> FALSE, cap |-> None]
    /\ db \in InitSeqStores
    /\ cache = EmptyMap
    /\ panicked = FALSE
    /\ InitHistory
    /\ InitCallers

SeqNext(name, ofault, rfault, wfault, checked) ==
    LET r == next(St, name, ofault, rfault, wfault, checked)
    IN  /\ ~panicked
        /\ Len(issued[name].vals) < MaxNext
        /\ Becomes(r.st)
        /\ Returns("next", name, Some(r.val))
        /\ issued' = IF r.st.panicked
                     THEN issued
                     ELSE [issued EXCEPT ![name] =
                              [fresh |-> @.fresh,
                               vals |-> Append(@.vals, r.val),
                               wok |-> @.wok /\ ~wfault,
                               rok |-> @.rok /\ ~rfault]]
        /\ UNCHANGED <<config, last, pc, seen, got>>

SeqCurrent(name, ofault, rfault) ==
    LET r == current(St, name, ofault, rfault)
    IN  /\ ~panicked
        /\ Becomes(r.st)
        /\ Returns("current", name, Some(r.val))
        /\ UNCHANGED <<config, last, issued, pc, seen, got>>

NextSeq ==
    \/ \E n \in SeqNames, o \in BOOLEAN, r \in BOOLEAN, w \in BOOLEAN,
          c \in BOOLEAN : SeqNext(n, o, r, w, c)
    \/ \E n \in SeqNames, o \in BOOLEAN, r \in BOOLEAN : SeqCurrent(n, o, r)

SpecSeq == InitSeq /\ [][NextSeq]_vars

-----------------------------------------------------------------------------
(* The sequence generator, concurrent callers on a working store.  next is *)
(* two calls of the store, tree.get and tree.insert, and another caller    *)
(* may run between them.                                                   *)

Callers == 1 .. NumCallers

\* the caller is in next(name) and has matched on tree.get
NextRead(p, name) ==
    /\ pc[p] = "idle"
    /\ Len(got[p]) < MaxNext
    /\ seen' = [seen EXCEPT ![p] = sequence_read(db, name, FALSE)]
    /\ pc' = [pc EXCEPT ![p] = "write"]
    /\ UNCHANGED <<config, db, cache, panicked, ret, last, issued, got>>

\* the caller inserts what it computed from its read, and returns
NextWrite(p, name) ==
    LET r == sequence_write(St, name, seen[p], FALSE, FALSE)
    IN  /\ pc[p] = "write"
        /\ Becomes(r.st)
        /\ got' = [got EXCEPT ![p] = Append(@, r.val)]
        /\ pc' = [pc EXCEPT ![p] = "idle"]
        /\ UNCHANGED <<config, ret, last, issued, seen>>

InitConc ==
    /\ config = [ttl |-> FALSE, cap |-> None]
    /\ db = EmptyMap
    /\ cache = EmptyMap
    /\ panicked = FALSE
    /\ InitHistory
    /\ InitCallers

NextConc ==
    \/ \E p \in Callers, n \in SeqNames : NextRead(p, n)
    \/ \E p \in Callers, n \in SeqNames : NextWrite(p, n)

SpecConc == InitConc /\ [][NextConc]_vars

-----------------------------------------------------------------------------
(* The eviction listener on a store that may fail it, and on the keys that *)
(* recover_root puts into the cache.  panicked is here the closure having  *)
(* panicked.                                                               *)

\* a raw key of the root partition that begins with ":/" and has no other "/"
MalformedKey == <<":", "/", "x">>

EvictSlots == InitSlots \cup {<<DefaultTree, MalformedKey>>}

InitEvict ==
    /\ config \in Configs
    /\ db \in UNION {[D -> InitBytes] : D \in SUBSET EvictSlots}
    /\ cache = EmptyMap
    /\ panicked = FALSE
    /\ InitHistory
    /\ InitCallers

\* the cache's maintenance takes the entry of key out, expired or over
\* capacity, and calls the listener; found records that the store fails it
Sweep(key, fault) ==
    LET cause == IF cache[key].expired THEN "Expired" ELSE "Size"
    IN  /\ ~panicked
        /\ key \in DOMAIN cache
        /\ \/ cache[key].expired
           \/ /\ config.cap # None
              /\ weighted_size(cache, DOMAIN cache) > config.cap[1]
        /\ Becomes([eviction_listener_on(St, key, cause, fault)
                       EXCEPT !.cache = cache_without(cache, key)])
        /\ ret' = [op |-> "listener", key |-> key, val |-> None,
                   found |-> fault # "ok"]
        /\ UNCHANGED <<config, last, issued, pc, seen, got>>

NextEvict ==
    \/ \E n \in Names, f \in {"ok", "open"}, errs \in SUBSET Keys :
          Recover(n, f, errs)
    \/ \E errs \in SUBSET {<<"a">>} : RecoverRoot(errs)
    \/ \E key \in DOMAIN cache : Expire(key)
    \/ \E key \in DOMAIN cache, f \in Faults : Sweep(key, f)

SpecEvict == InitEvict /\ [][NextEvict]_vars

-----------------------------------------------------------------------------
(* Records, concurrent callers on one key of a working store.  Each call   *)
(* of the store and each call of the cache is one step; the cache calls    *)
(* the listener inside its own call.  seen is what a caller holds between  *)
(* two steps: the bytes it has written or read.  last is the value of the  *)
(* last insert to have returned since the last insert or remove began, and *)
(* ret the last return of a get, with found for a return from the cache.   *)

RaceName == <<"T">>

RaceKey == <<"a">>

\* insert: bincode::serialize, open_tree and tree.insert
InsertStore(p, value) ==
    /\ pc[p] = "idle"
    /\ db' = tree_insert(db, RaceName, RaceKey, serialize(value)[1])
    /\ seen' = [seen EXCEPT ![p] = serialize(value)]
    /\ pc' = [pc EXCEPT ![p] = "insert_cache"]
    /\ last' = [last EXCEPT ![ckey(RaceName, RaceKey)] = None]
    /\ UNCHANGED <<config, cache, panicked, ret, issued, got>>

\* insert: cache.insert and the return
InsertCache(p) ==
    /\ pc[p] = "insert_cache"
    /\ Becomes(cache_insert(St, ckey(RaceName, RaceKey), seen[p][1]))
    /\ seen' = [seen EXCEPT ![p] = None]
    /\ pc' = [pc EXCEPT ![p] = "idle"]
    /\ last' = [last EXCEPT ![ckey(RaceName, RaceKey)] =
                   deserialize(seen[p][1])]
    /\ UNCHANGED <<config, ret, issued, got>>

\* remove: open_tree and tree.remove
RemoveStore(p) ==
    /\ pc[p] = "idle"
    /\ db' = tree_remove(db, RaceName, RaceKey)
    /\ pc' = [pc EXCEPT ![p] = "remove_cache"]
    /\ last' = [last EXCEPT ![ckey(RaceName, RaceKey)] = None]
    /\ UNCHANGED <<config, cache, panicked, ret, issued, seen, got>>

\* remove: cache.remove, which calls the listener, and the return
RemoveCache(p) ==
    /\ pc[p] = "remove_cache"
    /\ Becomes(cache_remove(St, ckey(RaceName, RaceKey)))
    /\ pc' = [pc EXCEPT ![p] = "idle"]
    /\ UNCHANGED <<config, ret, last, issued, seen, got>>

\* get is called
GetCall(p) ==
    /\ pc[p] = "idle"
    /\ pc' = [pc EXCEPT ![p] = "get_cache"]
    /\ UNCHANGED <<config, db, cache, panicked, ret, last, issued, seen, got>>

\* a get that answers an undecodable hit from the store
GetCache_from_store(p) ==
    LET hit == cache_get(cache, ckey(RaceName, RaceKey))
    IN  /\ pc[p] = "get_cache"
        /\ pc' = [pc EXCEPT ![p] =
                     IF hit # None /\ deserialize(hit[1]) # None
                     THEN "idle" ELSE "get_tree"]
        /\ ret' = IF hit # None /\ deserialize(hit[1]) # None
                  THEN [op |-> "get", key |-> ckey(RaceName, RaceKey),
                        val |-> deserialize(hit[1]), found |-> TRUE]
                  ELSE ret
        /\ UNCHANGED <<config, db, cache, panicked, last, issued, seen, got>>

\* get: cache.get; a hit returns what bincode::deserialize(&v).ok() gives,
\* a miss goes on to the store
GetCache(p) ==
    LET hit == cache_get(cache, ckey(RaceName, RaceKey))
    IN  /\ pc[p] = "get_cache"
        /\ pc' = [pc EXCEPT ![p] = IF hit # None THEN "idle" ELSE "get_tree"]
        /\ ret' = IF hit # None
                  THEN [op |-> "get", key |-> ckey(RaceName, RaceKey),
                        val |-> deserialize(hit[1]), found |-> TRUE]
                  ELSE ret
        /\ UNCHANGED <<config, db, cache, panicked, last, issued, seen, got>>

\* get: open_tree and tree.get; anything but Ok(Some(v)) returns None
GetTree(p) ==
    LET v == tree_get(db, RaceName, RaceKey)
    IN  /\ pc[p] = "get_tree"
        /\ seen' = [seen EXCEPT ![p] = v]
        /\ pc' = [pc EXCEPT ![p] = IF v # None THEN "get_fill" ELSE "idle"]
        /\ ret' = IF v # None
                  THEN ret
                  ELSE [op |-> "get", key |-> ckey(RaceName, RaceKey),
                        val |-> None, found |-> FALSE]
        /\ UNCHANGED <<config, db, cache, panicked, last, issued, got>>

\* get: cache.insert of the bytes read, and the return of their decoding
GetFill(p) ==
    /\ pc[p] = "get_fill"
    /\ Becomes(cache_insert(St, ckey(RaceName, RaceKey), seen[p][1]))
    /\ seen' = [seen EXCEPT ![p] = None]
    /\ pc' = [pc EXCEPT ![p] = "idle"]
    /\ ret' = [op |-> "get", key |-> ckey(RaceName, RaceKey),
               val |-> deserialize(seen[p][1]), found |-> FALSE]
    /\ UNCHANGED <<config, last, issued, got>>

\* recover: the iterator of the tree gives the item of the key
RecoverIter(p) ==
    LET v == tree_get(db, RaceName, RaceKey)
    IN  /\ pc[p] = "idle"
        /\ v # None
        /\ seen' = [seen EXCEPT ![p] = v]
        /\ pc' = [pc EXCEPT ![p] = "recover_fill"]
        /\ UNCHANGED <<config, db, cache, panicked, ret, last, issued, got>>

\* recover: cache.insert of the item, and the return
RecoverFill(p) ==
    /\ pc[p] = "recover_fill"
    /\ Becomes(cache_insert(St, ckey(RaceName, RaceKey), seen[p][1]))
    /\ seen' = [seen EXCEPT ![p] = None]
    /\ pc' = [pc EXCEPT ![p] = "idle"]
    /\ UNCHANGED <<config, ret, last, issued, got>>

\* bytes that are not the encoding of a record: too few of them
UndecodableBytes == <<7>>

\* a new store, or one in which the record was written by other hands
InitRace ==
    /\ config = [ttl |-> FALSE, cap |-> None]
    /\ db \in {EmptyMap,
               [x \in {<<RaceName, RaceKey>>} |-> UndecodableBytes]}
    /\ cache = EmptyMap
    /\ panicked = FALSE
    /\ InitHistory
    /\ InitCallers

NextRace ==
    \/ \E p \in Callers, v \in Values : InsertStore(p, v)
    \/ \E p \in Callers : InsertCache(p)
    \/ \E p \in Callers : RemoveStore(p)
    \/ \E p \in Callers : RemoveCache(p)
    \/ \E p \in Callers : GetCall(p)
    \/ \E p \in Callers : GetCache(p)
    \/ \E p \in Callers : GetTree(p)
    \/ \E p \in Callers : GetFill(p)
    \/ \E p \in Callers : RecoverIter(p)
    \/ \E p \in Callers : RecoverFill(p)

SpecRace == InitRace /\ [][NextRace]_vars

-----------------------------------------------------------------------------
(* The composite-key encoding: a store with one record, of any partition   *)
(* and any well-formed raw key, which is cached as recover and             *)
(* recover_root cache it and then removed from the cache.                  *)

\* names of record types: no "/" in them
KeyNames == {<<"T">>, <<"T", "a">>, <<":">>}

\* raw keys that do not begin with ":/"; "/" and ":" may occur in them
RawKeys ==
    {k \in UNION {[1 .. n -> {"a", "/", ":"}] : n \in 0 .. MaxKeyLen} :
        strip_prefix(k) = None}

\* the records: partition (the root partition among them) and raw key
Pairs == (KeyNames \cup {DefaultTree}) \X RawKeys

\* the key under which the cache holds the record x
CacheKey(x) == IF x[1] = DefaultTree THEN x[2] ELSE ckey(x[1], x[2])

InitKey ==
    /\ config = [ttl |-> FALSE, cap |-> None]
    /\ db \in {[y \in {x} |-> serialize(0)[1]] : x \in Pairs}
    /\ cache = EmptyMap
    /\ panicked = FALSE
    /\ InitHistory
    /\ InitCallers

\* recover, or recover_root, caches the record of the store
KeyRecover(x) ==
    /\ ~panicked
    /\ x \in DOMAIN db
    /\ Becomes(recover_each(St, x[1], {x[2]}))
    /\ Returns("recover", x[1], None)
    /\ UNCHANGED <<config, last, issued, pc, seen, got>>

\* the cache removes the entry and tells the listener: cause Explicit
KeyRemove(key) ==
    /\ ~panicked
    /\ key \in DOMAIN cache
    /\ Becomes(cache_remove(St, key))
    /\ Returns("listener", key, None)
    /\ UNCHANGED <<config, last, issued, pc, seen, got>>

NextKey ==
    \/ \E x \in DOMAIN db : KeyRecover(x)
    \/ \E key \in DOMAIN cache : KeyRemove(key)

SpecKey == InitKey /\ [][NextKey]_vars

-----------------------------------------------------------------------------
(* A single caller on records of two types and of the root partition that  *)
(* have the same raw key, on a working store.                              *)

NsNames == {<<"T">>, <<"U">>}

NsKeys == {<<"a">>}

NsRecordKeys == {ckey(n, k) : n \in NsNames, k \in NsKeys}

NsSlots == (NsNames \cup {DefaultTree}) \X NsKeys

InitNs ==
    /\ config \in Configs
    /\ db \in UNION {[D -> InitBytes] : D \in SUBSET NsSlots}
    /\ cache = EmptyMap
    /\ panicked = FALSE
    /\ ret = [op |-> "new", key |-> None, val |-> None, found |-> FALSE]
    /\ last = [ck \in NsRecordKeys |-> None]
    /\ issued = [n \in SeqNames |->
                    [fresh |-> TRUE, vals |-> << >>, wok |-> TRUE, rok |-> TRUE]]
    /\ InitCallers

NextNs ==
    \/ \E n \in NsNames, k \in NsKeys : Get(n, k, "ok")
    \/ \E n \in NsNames, k \in NsKeys, v \in Values \cup {Unserializable} :
          Insert(n, k, v, "ok")
    \/ \E n \in NsNames, k \in NsKeys : Remove(n, k, "ok")
    \/ \E n \in NsNames : Recover(n, "ok", {})
    \/ RecoverRoot({})
    \/ \E V \in SUBSET DOMAIN cache : RunPendingTasks(V, "ok")
    \/ \E key \in DOMAIN cache : Expire(key)
    \/ \E key \in DOMAIN cache : Evict(key)

SpecNs == InitNs /\ [][NextNs]_vars

-----------------------------------------------------------------------------
(* A single caller that issues sequence values and works on one record, on *)
(* a store that holds counters and records.                                *)

MixKeys == {<<"a">>}

InitMix ==
    /\ config \in Configs
    /\ \E d \in InitSeqStores, D \in SUBSET (Names \X MixKeys) :
          db = [x \in DOMAIN d \cup D |->
                   IF x \in DOMAIN d THEN d[x] ELSE serialize(0)[1]]
    /\ cache = EmptyMap
    /\ panicked = FALSE
    /\ InitHistory
    /\ InitCallers

NextMix ==
    \/ \E n \in SeqNames, o \in BOOLEAN, r \in BOOLEAN, w \in BOOLEAN,
          c \in BOOLEAN : SeqNext(n, o, r, w, c)
    \/ \E n \in SeqNames, o \in BOOLEAN, r \in BOOLEAN : SeqCurrent(n, o, r)
    \/ \E n \in Names, k \in MixKeys : Get(n, k, "ok")
    \/ \E n \in Names, k \in MixKeys, v \in Values : Insert(n, k, v, "ok")
    \/ \E n \in Names, k \in MixKeys : Remove(n, k, "ok")
    \/ \E n \in Names : Recover(n, "ok", {})
    \/ RecoverRoot({})
    \/ \E V \in SUBSET DOMAIN cache : RunPendingTasks(V, "ok")
    \/ \E key \in DOMAIN cache : Expire(key)
    \/ \E key \in DOMAIN cache : Evict(key)

SpecMix == InitMix /\ [][NextMix]_vars

-----------------------------------------------------------------------------
(* Claims about the sequence generator *)

\* a <= b for two u32
ULeq(a, b) == a.hi < b.hi \/ (a.hi = b.hi /\ a.lo <= b.lo)

\* the counter of name as the store holds it
Stored(name) == current(St, name, FALSE, FALSE).val

\* the calls of next that have returned: <<caller, index of the call>>
Returned == {<<p, i>> : p \in Callers, i \in 1 .. MaxNext} \cap
            UNION {{p} \X DOMAIN got[p] : p \in Callers}

\* C3: for any interleaving of next(name) calls by several callers on the
\* same name, no two calls return the same value, and the stored counter
\* never decreases.
C3_NextIsAtomicPerName ==
    [][/\ \A x \in Returned', y \in Returned' :
             x # y => got'[x[1]][x[2]] # got'[y[1]][y[2]]
       /\ \A n \in SeqNames : ULeq(Stored(n), Stored(n)')]_vars

\* C4: for a name never issued before, current(name) is 0; n successive
\* next(name) calls of one caller whose store writes succeed return 1, 2,
\* ..., n in that order, and current(name) afterwards returns n.
C4_FreshSequenceCounts ==
    \A n \in SeqNames :
        (~panicked /\ issued[n].fresh /\ issued[n].wok) =>
            /\ \A i \in DOMAIN issued[n].vals : issued[n].vals[i] = U(i)
            /\ Stored(n) = U(Len(issued[n].vals))

-----------------------------------------------------------------------------
(* Claims about records *)

\* the state after the step
StN == [db |-> db', cache |-> cache', panicked |-> panicked']

\* the partition and raw key a composite key of the cache stands for
Rec(key) ==
    IF key \in RecordKeys
    THEN CHOOSE x \in Names \X Keys : ckey(x[1], x[2]) = key
    ELSE <<DefaultTree, key>>

\* the record is in neither tier
AbsentRec(n, k) ==
    tree_get(db, n, k) = None /\ ckey(n, k) \notin DOMAIN cache

\* the step takes the live entry of key out of the cache and is no remove
\* of it: the cache evicted it for capacity
SizeEvicted(key) ==
    /\ key \in DOMAIN cache
    /\ ~cache[key].expired
    /\ key \notin DOMAIN cache'
    /\ ~(ret'.op = "remove" /\ ret'.key = key)

\* the entries the step takes out of the cache with cause Explicit (a
\* remove of a live entry) or Expired
Gone ==
    {key \in DOMAIN cache \ DOMAIN cache' :
        cache[key].expired \/ (ret'.op = "remove" /\ ret'.key = key)}

\* the step is the call op on key: it returns what r returns and leaves the
\* state r leaves
Did(op, key, r) ==
    /\ ~panicked
    /\ ret'.op = op
    /\ ret'.key = key
    /\ ret'.val = r.val
    /\ StN = r.st

\* C1: after insert(ns,k,v) succeeds and before any later remove(ns,k) or
\* expiry of that entry, every get(ns,k) returns v, whether the entry is
\* still in the cache or has been dropped from it in between.
C1_GetReturnsLastInsert ==
    \A n \in Names, k \in Keys :
        (~panicked /\ last[ckey(n, k)] # None) =>
            get(St, n, k, "ok").val = last[ckey(n, k)]

\* C2: once remove(ns,k) has returned, and as long as no insert of (ns,k)
\* follows, the record is in neither the cache nor the partition of ns:
\* get(ns,k) returns absent and contains(ns,k) returns false.
C2_RemovedIsAbsent ==
    [][\A n \in Names, k \in Keys :
          (/\ ~panicked'
           /\ \/ ret'.op = "remove" /\ ret'.key = ckey(n, k)
              \/ /\ AbsentRec(n, k)
                 /\ ~(/\ ret'.op = "insert"
                      /\ ret'.key = ckey(n, k)
                      /\ ret'.val # None))
          => /\ AbsentRec(n, k)'
             /\ get(StN, n, k, "ok").val = None
             /\ ~contains_key(StN, n, k, "ok").val]_vars

C2_Witness ==
    /\ ret.op = "remove"
    /\ ~panicked
    /\ AbsentRec(<<"T">>, <<"a">>)
    /\ ret.key = ckey(<<"T">>, <<"a">>)
    /\ ckey(<<"T">>, <<"b">>) \in DOMAIN cache

\* C5: told of a cause other than Explicit or Expired, the listener leaves
\* the persistent store as it is; a record the cache evicted for capacity
\* is still in the store, and the next get(ns,k) returns it and puts it
\* back into the cache.
C5_CapacityEvictionKeepsRecord ==
    [][/\ \A key \in DOMAIN cache, c \in Causes \ {"Explicit", "Expired"} :
             eviction_listener(St, key, c) = St
       /\ \A key \in DOMAIN cache :
             (SizeEvicted(key) /\ DOMAIN cache' = DOMAIN cache \ {key})
                 => db' = db
       /\ \A n \in Names, k \in Keys :
             (SizeEvicted(ckey(n, k)) /\ tree_get(db, n, k) # None) =>
                 LET r == get(StN, n, k, "ok")
                 IN  /\ tree_get(db', n, k) = tree_get(db, n, k)
                     /\ r.val = deserialize(db[<<n, k>>])
                     /\ cache_get(r.st.cache, ckey(n, k)) = Some(db[<<n, k>>])
                     /\ r.st.db = db']_vars

\* a record inserted and neither removed nor expired since is out of the
\* cache, which only an eviction for capacity does; get has not run yet
C5_Witness ==
    \E n \in Names, k \in Keys :
        /\ last[ckey(n, k)] # None
        /\ ckey(n, k) \notin DOMAIN cache
        /\ tree_get(db, n, k) = Some(serialize(last[ckey(n, k)][1])[1])
        /\ config.cap # None

\* C6: when an entry leaves the cache with cause Explicit or Expired, the
\* listener deletes from the store the raw key of that entry in the
\* partition its composite key names (the root partition for a key without
\* the prefix), and nothing else; a later get of the record returns absent.
C6_ExplicitOrExpiredDeletesRecord ==
    [][/\ \A key \in DOMAIN cache, c \in {"Explicit", "Expired"} :
             eviction_listener(St, key, c).db =
                 [x \in DOMAIN db \ {Rec(key)} |-> db[x]]
       /\ Gone # {} =>
             /\ db' = [x \in DOMAIN db \
                          ({Rec(key) : key \in Gone} \cup
                           (IF ret'.op = "remove" THEN {Rec(ret'.key)} ELSE {}))
                        |-> db[x]]
             /\ \A n \in Names, k \in Keys :
                   ckey(n, k) \in Gone => get(StN, n, k, "ok").val = None]_vars

\* the record of a successful insert is gone from the cache and from the
\* store: the entry has expired and the listener has deleted the record
C6_Witness ==
    \E n \in Names, k \in Keys :
        /\ ret.op = "insert"
        /\ ret.key = ckey(n, k)
        /\ ret.val = Some(1)
        /\ AbsentRec(n, k)
        /\ <<DefaultTree, <<"a">>>> \in DOMAIN db

\* C7: with a time to live configured, a record whose entry has expired is
\* absent on the next access: the first get(ns,k) after the expiry returns
\* absent, also when the cache has not yet swept the entry and told the
\* listener, and leaves the record in neither the cache nor the store.
C7_ExpiredRecordIsAbsent ==
    \A n \in Names, k \in Keys :
        (/\ ~panicked
         /\ config.ttl
         /\ ckey(n, k) \in DOMAIN cache
         /\ cache[ckey(n, k)].expired)
        => LET r == get(St, n, k, "ok")
           IN  /\ r.val = None
               /\ tree_get(r.st.db, n, k) = None
               /\ cache_get(r.st.cache, ckey(n, k)) = None


\* C8: if insert(ns,k,v) fails, because the value does not encode or
\* because the persistent write fails, the cache holds exactly the entries
\* it held before the call; an insert that succeeds leaves in the cache
\* the bytes it wrote to the store.
C8_FailedInsertLeavesCache ==
    [][\A n \in Names, k \in Keys, v \in Values \cup {Unserializable},
          f \in Faults :
          Did("insert", ckey(n, k), insert(St, n, k, v, f)) =>
              IF insert(St, n, k, v, f).val = None
              THEN cache' = cache
              ELSE /\ cache_get(cache', ckey(n, k)) = serialize(v)
                   /\ f = "ok"]_vars

\* an insert has failed on its persistent write while the cache held the
\* entry of an earlier insert of the key
C8_Witness ==
    /\ ret.op = "insert"
    /\ ret.val = None
    /\ panicked
    /\ ret.key \in DOMAIN cache
    /\ last[ret.key] # None

\* the cache is unbounded: no capacity, no time to live or to idle
Unbounded == config.cap = None /\ ~config.ttl

\* C9: on an unbounded cache, after recover(ns) (or recover_root()) every
\* pair of the partition is in the cache under its composite key with the
\* same bytes, so that a following get(ns,k) is served from the cache; the
\* store is unchanged, no cache entry is removed, an empty partition
\* changes nothing, and a second call changes nothing more.
C9_RecoverWarmsCache ==
    [][Unbounded =>
        /\ \A n \in Names :
              Did("recover", n, recover(St, n, "ok", {})) =>
                  /\ \A k \in tree_keys(db, n) :
                        LET g == get(StN, n, k, "open")
                        IN  /\ cache_get(cache', ckey(n, k)) = Some(db[<<n, k>>])
                            /\ g.val = deserialize(db[<<n, k>>])
                            /\ g.st = StN
                  /\ db' = db
                  /\ \A key \in DOMAIN cache :
                        /\ key \in DOMAIN cache'
                        /\ key \notin {ckey(n, k) : k \in tree_keys(db, n)}
                              => cache'[key] = cache[key]
                  /\ tree_keys(db, n) = {} => cache' = cache
                  /\ recover(StN, n, "ok", {}).st = StN
        /\ Did("recover_root", None, recover_root(St, {})) =>
              /\ \A k \in tree_keys(db, DefaultTree) :
                    cache_get(cache', k) = Some(db[<<DefaultTree, k>>])
              /\ db' = db
              /\ \A key \in DOMAIN cache :
                    /\ key \in DOMAIN cache'
                    /\ key \notin tree_keys(db, DefaultTree)
                          => cache'[key] = cache[key]
              /\ tree_keys(db, DefaultTree) = {} => cache' = cache
              /\ recover_root(StN, {}).st = StN]_vars

\* recover has put two records of a store written before into the cache
C9_Witness ==
    /\ Unbounded
    /\ ret.op = "recover"
    /\ ret.key = <<"T">>
    /\ last = [ck \in RecordKeys |-> None]
    /\ \A k \in Keys : cache_get(cache, ckey(<<"T">>, k)) = tree_get(db, <<"T">>, k)
    /\ \A k \in Keys : tree_get(db, <<"T">>, k) # None

\* C10: remove(ns,k) on an absent key, or a second time in a row, raises
\* no error and ends in the state a single call ends in, the listener's
\* own delete of the record included.
C10_RemoveIsIdempotent ==
    [][\A n \in Names, k \in Keys :
          Did("remove", ckey(n, k), remove(St, n, k, "ok")) =>
              /\ ~panicked'
              /\ AbsentRec(n, k)'
              /\ remove(StN, n, k, "ok").st = StN]_vars

\* remove has run on a record that the cache held and the store did not
\* (its entry had been replaced after it expired): the listener's delete,
\* told of the explicit eviction, found no record
C10_Witness ==
    /\ ret.op = "remove"
    /\ ret.key = ckey(<<"T">>, <<"a">>)
    /\ ~panicked
    /\ AbsentRec(<<"T">>, <<"a">>)
    /\ last[ckey(<<"T">>, <<"b">>)] # None

\* C15: get(ns,k) on a cache miss: when the partition holds k, get returns
\* the decoded value, the cache afterwards holds the composite key with the
\* store's bytes and the store is unchanged; when the partition does not
\* hold k, get returns absent and neither the cache nor the store changes.
C15_GetOnCacheMiss ==
    [][\A n \in Names, k \in Keys :
          (/\ Did("get", ckey(n, k), get(St, n, k, "ok"))
           /\ cache_get(cache, ckey(n, k)) = None)
          => IF tree_get(db, n, k) # None
             THEN /\ ret'.val = deserialize(db[<<n, k>>])
                  /\ cache_get(cache', ckey(n, k)) = Some(db[<<n, k>>])
                  /\ db' = db
             ELSE /\ ret'.val = None
                  /\ cache' = cache
                  /\ db' = db]_vars

\* C17: contains(ns,k) returns true exactly when the composite key is in
\* the cache or the raw key is in the partition of ns, and has no side
\* effect: cache (no promotion on a store hit) and store are as before.
C17_ContainsIsPure ==
    [][\A n \in Names, k \in Keys :
          LET r == contains_key(St, n, k, "ok")
          IN  (/\ ~panicked
               /\ ret'.op = "contains_key"
               /\ ret'.key = ckey(n, k)
               /\ ret'.found = r.val
               /\ StN = r.st)
              => /\ ret'.found = (\/ cache_contains_key(cache, ckey(n, k))
                                  \/ tree_get(db, n, k) # None)
                 /\ cache' = cache
                 /\ db' = db
                 /\ ~panicked']_vars

\* contains_key has found in the store a record that the cache does not
\* hold, and the cache still does not hold it
C17_Witness ==
    /\ ret.op = "contains_key"
    /\ ret.found
    /\ ~panicked
    /\ ret.key \notin DOMAIN cache
    /\ tree_get(db, Rec(ret.key)[1], Rec(ret.key)[2]) # None
    /\ DOMAIN cache # {}

-----------------------------------------------------------------------------
(* Claims about the eviction listener *)

\* the composite key names a partition and a raw key, or is a key of the
\* root partition without the prefix
WellFormed(key) ==
    strip_prefix(key) # None => split_once(strip_prefix(key)[1]) # None

\* C11: when the store's removal, or the opening of the partition, fails
\* inside the eviction listener, the listener does not panic: it returns,
\* and the store is left as it was, with at worst a stale record.
C11_ListenerSwallowsStoreFailure ==
    [][(ret'.op = "listener" /\ ret'.found /\ WellFormed(ret'.key))
          => ~panicked' /\ db' = db]_vars

\* C12: told of a key that has the prefix ":/" and no further "/", the
\* listener does not panic: it skips the key and leaves the store as it is.
C12_ListenerSkipsMalformedKey ==
    [][(ret'.op = "listener" /\ ~ret'.found /\ ~WellFormed(ret'.key))
          => ~panicked' /\ db' = db]_vars

-----------------------------------------------------------------------------
(* Claims about concurrent callers on one record *)

\* no call is in flight
Quiescent == \A p \in Callers : pc[p] = "idle"

\* C13: in every quiescent state reached by concurrent callers on one key,
\* each cache entry has a record in the store for the same partition and
\* raw key, with the same bytes.
C13_CacheCoherentWhenQuiescent ==
    Quiescent =>
        \A key \in DOMAIN cache :
            tree_get(db, Rec(key)[1], Rec(key)[2]) = Some(cache[key].bytes)

\* C14: when the listener call of a remove that began earlier runs after an
\* insert of the same record has written the store and returned, the store
\* still holds the inserted value afterwards and get returns it.
C14_LaggingDeleteKeepsInsert ==
    [][\A p \in Callers :
          (/\ pc[p] = "remove_cache"
           /\ pc'[p] = "idle"
           /\ \A q \in Callers \ {p} : pc[q] = "idle"
           /\ last[ckey(RaceName, RaceKey)] # None
           /\ tree_get(db, RaceName, RaceKey) # None
           /\ deserialize(tree_get(db, RaceName, RaceKey)[1]) =
                  last[ckey(RaceName, RaceKey)])
          => /\ tree_get(db', RaceName, RaceKey) =
                    tree_get(db, RaceName, RaceKey)
             /\ get(StN, RaceName, RaceKey, "ok").val =
                    last[ckey(RaceName, RaceKey)]]_vars

\* C16: a get whose cache hit does not decode returns absent without
\* reading the store, also when the store holds bytes that decode, and
\* changes neither the cache nor the store.
C16_UndecodableHitIsAbsent ==
    [][\A p \in Callers :
          LET hit == cache_get(cache, ckey(RaceName, RaceKey))
          IN  (/\ pc[p] = "get_cache"
               /\ pc'[p] # "get_cache"
               /\ hit # None
               /\ deserialize(hit[1]) = None)
              => /\ pc'[p] = "idle"
                 /\ ret'.op = "get" /\ ret'.found /\ ret'.val = None
                 /\ db' = db
                 /\ cache' = cache]_vars

\* a get has returned absent from the cache, whose entry does not decode,
\* while the store holds a record that does
C16_Witness ==
    /\ Quiescent
    /\ ret.op = "get" /\ ret.found /\ ret.val = None
    /\ cache_get(cache, ckey(RaceName, RaceKey)) = Some(UndecodableBytes)
    /\ tree_get(db, RaceName, RaceKey) = serialize(1)

-----------------------------------------------------------------------------
(* Claims about the composite-key encoding *)

\* C18: for names without "/" and raw keys that do not begin with ":/",
\* distinct records, those of the root partition included, have distinct
\* composite keys, and the listener's decoding (strip the prefix, split at
\* the first "/") gives back the name and the raw key that were encoded,
\* also for a raw key with "/" in it: told of the key, the listener deletes
\* the record that was encoded.
C18_CkeyIsInjectiveAndReversible ==
    [][/\ \A x \in Pairs, y \in Pairs : x # y => CacheKey(x) # CacheKey(y)
       /\ \A n \in KeyNames, k \in RawKeys :
             /\ strip_prefix(ckey(n, k)) # None
             /\ split_once(strip_prefix(ckey(n, k))[1]) = Some(<<n, k>>)
       /\ \A x \in DOMAIN db :
             (/\ ret'.op = "listener"
              /\ ret'.key = CacheKey(x)
              /\ CacheKey(x) \in DOMAIN cache)
             => /\ db' = EmptyMap
                /\ cache' = EmptyMap
                /\ ~panicked']_vars

\* the listener has deleted the record of a raw key with "/" in it, told of
\* the composite key under which recover had cached it
C18_Witness ==
    /\ ret.op = "listener"
    /\ ret.key = ckey(<<"T">>, <<"a", "/">>)
    /\ db = EmptyMap
    /\ cache = EmptyMap
    /\ ~panicked

-----------------------------------------------------------------------------
(* Claims about namespaces *)

\* the step is a call of insert, get, remove or recover for the record
\* (n, k), or for the partition n
IsOpOn(n, k) ==
    /\ ~panicked
    /\ ret'.key \in {ckey(n, k), n}
    /\ \/ /\ ret'.op = "get"
          /\ Did("get", ckey(n, k), get(St, n, k, "ok"))
       \/ /\ ret'.op = "insert"
          /\ \E v \in Values \cup {Unserializable} :
                Did("insert", ckey(n, k), insert(St, n, k, v, "ok"))
       \/ /\ ret'.op = "remove"
          /\ Did("remove", ckey(n, k), remove(St, n, k, "ok"))
       \/ /\ ret'.op = "recover"
          /\ Did("recover", n, recover(St, n, "ok", {}))

\* the record of partition o and raw key k is in store and cache what it
\* is in the store and the cache of st
SameRecord(st, o, k) ==
    LET key == CacheKey(<<o, k>>)
    IN  /\ tree_get(st.db, o, k) = tree_get(db, o, k)
        /\ (key \in DOMAIN st.cache) = (key \in DOMAIN cache)
        /\ key \in DOMAIN cache => st.cache[key] = cache[key]
        /\ o \in NsNames =>
              get(st, o, k, "ok").val = get(St, o, k, "ok").val

\* C19: insert, get, remove and recover for (ns1,k), and the listener told
\* of the entry of (ns1,k) whatever the cause, leave the record of raw key k
\* of every other partition ns2, the root partition included, as it is in
\* the cache and in the store; get(ns2,k) returns what it returned before.
C19_NamespacesAreIsolated ==
    [][\A n1 \in NsNames, k \in NsKeys :
          /\ \A c \in Causes :
                LET st == eviction_listener(St, ckey(n1, k), c)
                IN  /\ st.cache = cache
                    /\ \A x \in DOMAIN db :
                          x # <<n1, k>> => /\ x \in DOMAIN st.db
                                           /\ st.db[x] = db[x]
          /\ (\/ IsOpOn(n1, k)
              \/ /\ ckey(n1, k) \in DOMAIN cache
                 /\ DOMAIN cache' = DOMAIN cache \ {ckey(n1, k)})
             => \A n2 \in (NsNames \cup {DefaultTree}) \ {n1} :
                    SameRecord(StN, n2, k)]_vars

\* remove has taken the record of type T out of store and cache while the
\* records of type U and of the root partition, same raw key, are in both
C19_Witness ==
    /\ ret.op = "remove"
    /\ ret.key = ckey(<<"T">>, <<"a">>)
    /\ ~panicked
    /\ tree_get(db, <<"T">>, <<"a">>) = None
    /\ ckey(<<"T">>, <<"a">>) \notin DOMAIN cache
    /\ last[ckey(<<"U">>, <<"a">>)] # None
    /\ cache_get(cache, ckey(<<"U">>, <<"a">>)) = tree_get(db, <<"U">>, <<"a">>)
    /\ tree_get(db, <<"U">>, <<"a">>) # None
    /\ cache_get(cache, <<"a">>) = tree_get(db, DefaultTree, <<"a">>)
    /\ tree_get(db, DefaultTree, <<"a">>) # None

-----------------------------------------------------------------------------
(* Claims about sequences and records *)

\* the store d without the SEQUENCE partition: the record partitions
RecordsOf(d) ==
    [x \in {y \in DOMAIN d : y[1] # SEQUENCE_TREE_NAME} |-> d[x]]

\* the SEQUENCE partition of the store d
CountersOf(d) ==
    [x \in {y \in DOMAIN d : y[1] = SEQUENCE_TREE_NAME} |-> d[x]]

\* C20: next(name) and current(name) never add, change or remove a cache
\* entry or a record of a record partition, and no insert, get, remove,
\* recover or listener call for a record changes what current(name)
\* returns.
C20_SequencesApartFromRecords ==
    [][/\ (\/ issued' # issued
           \/ /\ ret'.op \in {"next", "current"}
              /\ ret' # ret \/ panicked' # panicked)
          => /\ cache' = cache
             /\ RecordsOf(db') = RecordsOf(db)
       /\ issued' = issued =>
             /\ CountersOf(db') = CountersOf(db)
             /\ \A n \in SeqNames : Stored(n)' = Stored(n)]_vars

\* next has issued the first value of a fresh sequence with the record in
\* store and cache, and a remove of the record has followed: the counter
\* is the value issued
C20_Witness ==
    /\ ret.op = "remove"
    /\ ~panicked
    /\ \E n \in SeqNames :
          /\ issued[n].fresh
          /\ issued[n].vals = <<U(1)>>
          /\ Stored(n) = U(1)
    /\ RecordsOf(db) = EmptyMap
    /\ cache = EmptyMap

=============================================================================
